---- MODULE Spec2Model ----
(***************************************************************************)
(* Model of the bulk request engine, SendMultipleRequests, of              *)
(* src/internal/httpclient/client.go (lines 89-337).                       *)
(*                                                                         *)
(* Goroutines of one call: the coordinator (the caller's goroutine, which  *)
(* validates, runs the chunk loop and the collector select loop), and per  *)
(* chunk `concurrency` workers, one feeder and one closer.  The ticker of  *)
(* the rate limiter and the HTTP server are the environment.               *)
(***************************************************************************)
EXTENDS Integers, Sequences, FiniteSets, Bags, TLC

\* ------------------------------------------------------------------ bounds
\* counts, worker counts and chunk sizes given to the engine
MaxCount == 2
MaxConcurrency == 2
MaxChunkSize == 2

\* --------------------------------------------------------- program constants
DefaultConcurrency == 10
DefaultChunkSize == 1000
ExampleLimit == 200

\* HTTP statuses the server answers with (0 is the engine's pseudo-status)
Statuses == {200, 401}
\* payload formats the encoder knows (switch at lines 182-238)
KnownPayloadTypes == {"json", "form", "multipart", "binary", "graphql"}
\* payload formats given to the engine: the known ones and an unknown one
PayloadTypes == KnownPayloadTypes \cup {"xml"}
\* the caller's header maps given to the engine
BaseHeaders == [k \in {"Content-Type"} |-> "text/plain"]
LowerCaseHeaders == [k \in {"content-type"} |-> "text/plain"]
HeaderMaps == { << >>, BaseHeaders, [k \in {"X-Token"} |-> "t"], LowerCaseHeaders }
\* the mappings payloadGen returns (the same one for every index)
OneField == [k \in {"a"} |-> "x"]
TwoFields == [k \in {"a", "b"} |-> IF k = "a" THEN "x" ELSE "y"]
FieldMaps == { OneField, TwoFields }
\* rate limits given to the engine: none, small ones, and some around the
\* values where 1s / R passes 1 ms and 1 ns
MaxSmallRate == 50
RateLimits ==
  0..MaxSmallRate \cup { 999, 1000, 1001, 2000, 1000000, 999999999, 1000000000,
                         1000000001, 2000000000, 2147483647 }

VARIABLES
  args,          \* the by-value arguments of the call
  headers,       \* the caller's headers map (shared by reference)
  headersOnEntry,\* history: the contents of headers when the call was made
  env,           \* environment: can the dialer be built, can the log be created
  pc,            \* position of the coordinator
  ret,           \* what the call returned: "none", "stats", "error"
  concurrency,   \* local: worker count after coercion
  chunkSize,     \* local: chunk size after coercion
  logging,       \* local: logging enabled
  csvFile,       \* "nil", "open", "closed"
  csvRows,       \* rows flushed to the log file, header included
  TotalPerStatus,\* stats.TotalPerStatus: map status -> count
  ExampleMessage,\* stats.ExampleMessage: map status -> text
  globalMu,      \* "free" or "coord" (a worker locks and unlocks within one step)
  rateTicker,    \* "nil", "running", "stopped"
  rateTickC,     \* number of permits buffered in the ticker channel (0 or 1)
  ticks,         \* history: ticks the ticker has put on its channel
  interval,      \* local: the ticker's interval in nanoseconds (0: no ticker)
  start,         \* local: first index of the current chunk
  processed,     \* local: outcomes the collector has accounted for
  cur,           \* local: the value last received by the collector's select
  jobs,          \* per chunk: buffered job channel
  jobsClosed,    \* per chunk: job channel closed
  results,       \* per chunk: buffered result channel
  resultsClosed, \* per chunk
  errorsCh,      \* per chunk: buffered failure channel
  errorsClosed,  \* per chunk
  wg,            \* per chunk: WaitGroup counter
  feeder,        \* per chunk: next index to enqueue, or "done"
  closer,        \* per chunk: "wait", "closeErrors", "done"
  worker,        \* per chunk: the bag of the workers' states [pc, idx, resp, reqHeaders, permit]
  outcome,       \* history: idx -> status of the emitted outcome (0 = failure)
  text,          \* history: idx -> snippet or error text of the emitted outcome
  firstEmitted,  \* history: status -> the first idx whose emitted outcome had it
  dispatched,    \* history: indices for which an HTTP request was dispatched
  gen,           \* history: idx -> number of calls payloadGen(idx)
  enqueued,      \* history: the pairs << chunk, idx >> sent on a job channel, in order
  sends,         \* history: idx -> number of outcomes sent on a channel for idx
  wire,          \* history: idx -> the header of the request as dispatched
  body,          \* history: idx -> the body of the request as dispatched
  closes         \* history: << channel, chunk >> -> number of close() calls

vars == << args, headers, headersOnEntry, env, pc, ret, concurrency, chunkSize,
           logging, csvFile, csvRows, TotalPerStatus, ExampleMessage, globalMu,
           rateTicker, rateTickC, ticks, interval, start, processed, cur,
           jobs, jobsClosed, results, resultsClosed, errorsCh, errorsClosed,
           wg, feeder, closer, worker,
           outcome, text, firstEmitted, dispatched, gen, enqueued,
           sends, wire, body, closes >>

requestHist == << outcome, text, firstEmitted, dispatched, gen, enqueued, sends, wire, body >>
histVars == << requestHist, closes >>
coordVars == << pc, ret, start, processed, cur >>
statsVars == << TotalPerStatus, ExampleMessage >>
logVars == << logging, csvFile, csvRows >>
tickVars == << rateTicker, rateTickC, ticks >>
chanVars == << jobs, jobsClosed, results, resultsClosed, errorsCh, errorsClosed >>
inputVars == << args, headersOnEntry, env, concurrency, chunkSize, interval >>

\* -------------------------------------------------------------- helpers
\* the collector's select has received nothing it still holds
NoValue == [StatusCode |-> -1, Body |-> << >>]

Min(a, b) == IF a < b THEN a ELSE b

RECURSIVE SumOver(_, _)
SumOver(f, S) ==
  IF S = {} THEN 0
  ELSE LET x == CHOOSE y \in S : TRUE IN f[x] + SumOver(f, S \ {x})

\* sum of the values of a map
MapSum(m) == SumOver(m, DOMAIN m)

\* m[k]++ on a Go map: a missing key reads as 0
MapInc(m, k) ==
  [x \in DOMAIN m \cup {k} |-> IF x = k THEN (IF k \in DOMAIN m THEN m[k] ELSE 0) + 1 ELSE m[x]]

\* m[k] = v on a Go map
MapSet(m, k, v) == [x \in DOMAIN m \cup {k} |-> IF x = k THEN v ELSE m[x]]

EmptyMap == <<>>

\* the chunk the coordinator is working on (chunks are numbered from 1)
NumChunks == Len(jobs)
Chunks == 1..NumChunks

\* ------------------------------------------------------------------ Init
\* The calls explored: every combination of count, worker count, chunk size,
\* rate limit, logging and known/unknown format within the bounds.  The
\* default worker count, the proxy, the other header maps and the known
\* formats other than json and binary are explored with counts up to 1 (and
\* worker counts and chunk sizes up to 2), and the rate limit together with
\* the log with counts below MaxCount.
Explored(a, h, e) ==
  /\ (a.concurrency <= 0 => a.count <= 1)
  /\ (a.useTor \/ h # BaseHeaders \/ a.payloadType \notin {"json", "xml", "binary"}
        => a.count <= 1 /\ a.concurrency \in 1..2 /\ a.chunkSize <= 2)
  \* logged runs of more than two requests with at most two workers
  /\ (a.logPath # "" /\ a.count > 2 => a.concurrency <= 2)
  \* more than one field, and more than one request in the binary format,
  \* with one worker, one chunk, no rate limit and no log
  /\ (a.fields # OneField \/ (a.payloadType = "binary" /\ a.count > 1)
        => /\ a.concurrency = 1 /\ a.chunkSize = 0
           /\ a.rateLimit = 0 /\ a.logPath = "" /\ ~a.useTor /\ h = BaseHeaders)
  \* the header name in lower case with one worker, one chunk and no log
  /\ (h = LowerCaseHeaders
        => /\ a.concurrency = 1 /\ a.chunkSize = 0
           /\ a.rateLimit = 0 /\ a.logPath = "" /\ ~a.useTor)
  \* more than one field with the formats that iterate over the mapping
  /\ (a.fields # OneField => a.payloadType \in {"binary", "multipart"})
  \* rate limits above 1 with one request, one worker, one chunk and no log
  /\ (a.rateLimit > 1
        => /\ a.count = 1 /\ a.concurrency = 1 /\ a.chunkSize = 0 /\ a.logPath = ""
           /\ ~a.useTor /\ h = BaseHeaders /\ a.payloadType = "json")
  /\ (a.rateLimit > 0 /\ a.logPath # "" => a.count < MaxCount)
  \* the environment is asked only for what the call uses
  /\ (~a.useTor => e.dialerOk)
  /\ (a.logPath = "" => e.createOk)

Init ==
  /\ args \in [ count: -1..MaxCount,
                concurrency: 0..MaxConcurrency,
                chunkSize: 0..MaxChunkSize,
                useTor: BOOLEAN,
                payloadType: PayloadTypes,
                rateLimit: RateLimits,
                logPath: {"", "log.csv"},
                fields: FieldMaps ]
  /\ headers \in HeaderMaps
  /\ headersOnEntry = headers
  /\ env \in [ dialerOk: BOOLEAN, createOk: BOOLEAN ]
  /\ Explored(args, headers, env)
  /\ pc = "entry"
  /\ ret = "none"
  /\ concurrency = args.concurrency
  /\ chunkSize = args.chunkSize
  /\ logging = FALSE
  /\ csvFile = "nil"
  /\ csvRows = <<>>
  /\ TotalPerStatus = EmptyMap
  /\ ExampleMessage = EmptyMap
  /\ globalMu = "free"
  /\ rateTicker = "nil"
  /\ rateTickC = 0
  /\ ticks = 0
  /\ interval = 0
  /\ start = 0
  /\ processed = 0
  /\ cur = NoValue
  /\ jobs = <<>>
  /\ jobsClosed = <<>>
  /\ results = <<>>
  /\ resultsClosed = <<>>
  /\ errorsCh = <<>>
  /\ errorsClosed = <<>>
  /\ wg = <<>>
  /\ feeder = <<>>
  /\ closer = <<>>
  /\ worker = <<>>
  /\ outcome = EmptyMap
  /\ text = EmptyMap
  /\ firstEmitted = EmptyMap
  /\ dispatched = {}
  /\ gen = EmptyMap
  /\ enqueued = << >>
  /\ sends = EmptyMap
  /\ wire = EmptyMap
  /\ body = EmptyMap
  /\ closes = EmptyMap

\* ------------------------------------------------ entry (lines 102-151)
HeaderRow == <<"index", "status", "snippet">>

\* mutant: the error of createClient is ignored
createClientOk_always == TRUE

\* createClient (lines 68-87): fails only when the SOCKS5 dialer cannot be built
createClientOk == (~args.useTor) \/ env.dialerOk

\* time.Second and time.Millisecond in nanoseconds
Second == 1000000000
Millisecond == 1000000

\* mutant: 1 ms is the least interval
Interval_clamped(R) ==
  LET d == Second \div R
  IN IF d <= Millisecond THEN Millisecond ELSE d

\* lines 144-147: time.Duration(float64(time.Second) / float64(rateLimit))
\* is the quotient cut to whole nanoseconds; 1 ms replaces 0
Interval(R) ==
  LET d == Second \div R
  IN IF d <= 0 THEN Millisecond ELSE d

\* Validation, coercion of the worker count and the chunk size, creation of
\* the client, of the log file and of the ticker.
Enter ==
  /\ pc = "entry"
  /\ IF args.count <= 0
       THEN /\ pc' = "returned" /\ ret' = "error"
            /\ UNCHANGED << concurrency, chunkSize, logVars, rateTicker, interval >>
       ELSE /\ concurrency' = IF concurrency <= 0 THEN DefaultConcurrency ELSE concurrency
            /\ chunkSize' = IF chunkSize <= 0 THEN DefaultChunkSize ELSE chunkSize
            /\ IF ~createClientOk
                 THEN /\ pc' = "returned" /\ ret' = "error"
                      /\ UNCHANGED << logVars, rateTicker, interval >>
                 ELSE IF args.logPath # "" /\ ~env.createOk
                 THEN /\ pc' = "returned" /\ ret' = "error"
                      /\ UNCHANGED << logVars, rateTicker, interval >>
                 ELSE /\ IF args.logPath # ""
                           THEN /\ csvFile' = "open"
                                /\ csvRows' = << HeaderRow >>
                                /\ logging' = TRUE
                           ELSE UNCHANGED logVars
                      /\ rateTicker' = IF args.rateLimit > 0 THEN "running" ELSE "nil"
                      /\ interval' = IF args.rateLimit > 0 THEN Interval(args.rateLimit) ELSE 0
                      /\ pc' = "loop" /\ ret' = "none"
  /\ UNCHANGED << args, headers, headersOnEntry, env, statsVars, globalMu,
                  rateTickC, ticks, start, processed, cur, chanVars,
                  wg, feeder, closer, worker, histVars >>

\* ------------------------------------------- chunk loop (lines 154-283)
\* the chunk the collector is collecting
k0 == NumChunks
\* mutant: the chunk is not clamped to chunkSize
batchSize_unchunked == args.count - start

batchSize == Min(start + chunkSize, args.count) - start

\* a worker at the head of its range loop; the variables of the loop body are
\* out of scope there.  permit is history: the worker has received a permit
\* for the index it holds.
NewWorker == [pc |-> "idle", idx |-> -1, resp |-> <<>>, reqHeaders |-> <<>>, permit |-> FALSE]

\* mutant: one worker too many is started
SpawnCount_extra == concurrency + 1

\* how many workers one chunk gets (loop at lines 265-268)
SpawnCount == concurrency

\* One iteration of the chunk loop up to the collector: channels made,
\* workers, feeder and closer started, processed := 0.
StartChunk ==
  /\ pc = "loop"
  /\ start < args.count
  /\ jobs' = Append(jobs, <<>>)
  /\ jobsClosed' = Append(jobsClosed, FALSE)
  /\ results' = Append(results, <<>>)
  /\ resultsClosed' = Append(resultsClosed, FALSE)
  /\ errorsCh' = Append(errorsCh, <<>>)
  /\ errorsClosed' = Append(errorsClosed, FALSE)
  /\ wg' = Append(wg, SpawnCount)
  /\ worker' = Append(worker, [wk \in {NewWorker} |-> SpawnCount])
  /\ feeder' = Append(feeder, [i |-> start, s |-> start, e |-> start + batchSize, done |-> FALSE])
  /\ closer' = Append(closer, "wait")
  /\ processed' = 0
  /\ pc' = "select"
  /\ UNCHANGED << inputVars, headers, ret, logVars, statsVars, globalMu, tickVars,
                  start, cur, histVars >>

\* mutant: the channels have room for one item less than the chunk
Cap_short(k) == feeder[k].e - feeder[k].s - 1

\* capacity of the three channels of chunk k (lines 162-164)
Cap(k) == feeder[k].e - feeder[k].s

\* feeder goroutine (lines 271-276): jobs <- i
FeedSend(k) ==
  /\ ~feeder[k].done
  /\ feeder[k].i < feeder[k].e
  /\ Len(jobs[k]) < Cap(k)
  /\ jobs' = [jobs EXCEPT ![k] = Append(@, feeder[k].i)]
  /\ feeder' = [feeder EXCEPT ![k].i = @ + 1]
  /\ enqueued' = Append(enqueued, << k, feeder[k].i >>)
  /\ UNCHANGED << inputVars, headers, coordVars, logVars, statsVars, globalMu, tickVars,
                  jobsClosed, results, resultsClosed, errorsCh, errorsClosed,
                  wg, closer, worker, outcome, text, firstEmitted, dispatched, gen,
                  sends, wire, body, closes >>

\* mutant: the feeder ends without closing the job channel
FeedClose_forgot(k) ==
  /\ ~feeder[k].done
  /\ feeder[k].i >= feeder[k].e
  /\ feeder' = [feeder EXCEPT ![k].done = TRUE]
  /\ UNCHANGED << inputVars, headers, coordVars, logVars, statsVars, globalMu, tickVars,
                  chanVars, wg, closer, worker, histVars >>

\* feeder goroutine: close(jobs)
FeedClose(k) ==
  /\ ~feeder[k].done
  /\ feeder[k].i >= feeder[k].e
  /\ jobsClosed' = [jobsClosed EXCEPT ![k] = TRUE]
  /\ closes' = MapInc(closes, << "jobs", k >>)
  /\ feeder' = [feeder EXCEPT ![k].done = TRUE]
  /\ UNCHANGED << inputVars, headers, coordVars, logVars, statsVars, globalMu, tickVars,
                  jobs, results, resultsClosed, errorsCh, errorsClosed,
                  wg, closer, worker, requestHist >>

\* mutant: the closer does not wait for the workers
CloseResults_nowait(k) ==
  /\ closer[k] = "wait"
  /\ resultsClosed' = [resultsClosed EXCEPT ![k] = TRUE]
  /\ closes' = MapInc(closes, << "results", k >>)
  /\ closer' = [closer EXCEPT ![k] = "closeErrors"]
  /\ UNCHANGED << inputVars, headers, coordVars, logVars, statsVars, globalMu, tickVars,
                  jobs, jobsClosed, results, errorsCh, errorsClosed,
                  wg, feeder, worker, requestHist >>

\* closer goroutine (lines 279-283): wg.Wait(); close(results)
CloseResults(k) ==
  /\ closer[k] = "wait"
  /\ wg[k] = 0
  /\ resultsClosed' = [resultsClosed EXCEPT ![k] = TRUE]
  /\ closes' = MapInc(closes, << "results", k >>)
  /\ closer' = [closer EXCEPT ![k] = "closeErrors"]
  /\ UNCHANGED << inputVars, headers, coordVars, logVars, statsVars, globalMu, tickVars,
                  jobs, jobsClosed, results, errorsCh, errorsClosed,
                  wg, feeder, worker, requestHist >>

\* closer goroutine: close(errorsCh)
CloseErrors(k) ==
  /\ closer[k] = "closeErrors"
  /\ errorsClosed' = [errorsClosed EXCEPT ![k] = TRUE]
  /\ closes' = MapInc(closes, << "errorsCh", k >>)
  /\ closer' = [closer EXCEPT ![k] = "done"]
  /\ UNCHANGED << inputVars, headers, coordVars, logVars, statsVars, globalMu, tickVars,
                  jobs, jobsClosed, results, resultsClosed, errorsCh,
                  wg, feeder, worker, requestHist >>

\* ------------------------------------------------ worker (lines 168-262)
\* texts are sequences of bytes; the model keeps them short
\* the snippet the server sends for request idx (trimmed, at most 512 bytes)
Snippet(idx) == << idx >>
\* fmt.Errorf("idx %d: %w", idx, err) (line 249)
TransportErrText(idx) == << -1, idx >>
\* a snippet of more than ExampleLimit bytes
LongSnippet(idx) == [j \in 1..(ExampleLimit + 1) |-> idx]
\* the error text of a request whose URL is long: more than ExampleLimit + 3 bytes
LongErrText(idx) == << -1, idx >> \o [j \in 1..(ExampleLimit + 2) |-> 47]
\* fmt.Errorf("unsupported payload type: %s", payloadType) (line 236)
UnsupportedErrText == << -2 >>

\* the encoder's content type (lines 191, 199, 211, 221, 233)
ContentTypeOf(t) ==
  CASE t = "json" -> "application/json"
    [] t = "form" -> "application/x-www-form-urlencoded"
    [] t = "multipart" -> "multipart/form-data"
    [] t = "binary" -> "application/octet-stream"
    [] t = "graphql" -> "application/json"

\* a worker emits the outcome of request idx: status s (0: failure) with text t
Emit(idx, s, t) ==
  /\ outcome' = MapSet(outcome, idx, s)
  /\ text' = MapSet(text, idx, t)
  /\ sends' = MapInc(sends, idx)
  /\ firstEmitted' = IF s \in DOMAIN firstEmitted THEN firstEmitted
                                                ELSE MapSet(firstEmitted, s, idx)

othersUnchangedByWorker ==
  UNCHANGED << inputVars, coordVars, statsVars, globalMu, feeder, closer,
               jobsClosed, resultsClosed, errorsClosed, ticks, rateTicker >>

\* The workers of a chunk are anonymous goroutines running the same closure:
\* worker[k] is the bag of their states.  One worker of chunk k goes from
\* state `from` to state `to`.
Step(k, from, to) ==
  worker' = [worker EXCEPT ![k] = (@ (-) SetToBag({from})) (+) SetToBag({to})]

\* the workers of chunk k that are at position p
At(k, p) == { wk \in BagToSet(worker[k]) : wk.pc = p }

\* mutant: the worker does not wait for the ticker
AfterTake_nowait == "build"

\* where a worker goes after taking an index (lines 172-174)
AfterTake == IF args.rateLimit > 0 THEN "permit" ELSE "build"

\* mutant: the index is read but left in the channel
WTake_peek(k, wk) ==
  /\ wk.pc = "idle"
  /\ Len(jobs[k]) > 0
  /\ Step(k, wk, [wk EXCEPT !.idx = Head(jobs[k]), !.pc = AfterTake])
  /\ othersUnchangedByWorker
  /\ UNCHANGED << headers, logVars, rateTickC, jobs, results, errorsCh, wg, histVars >>

\* `for idx := range jobs` receives an index
WTake(k, wk) ==
  /\ wk.pc = "idle"
  /\ Len(jobs[k]) > 0
  /\ jobs' = [jobs EXCEPT ![k] = Tail(@)]
  /\ Step(k, wk, [wk EXCEPT !.idx = Head(jobs[k]), !.pc = AfterTake])
  /\ othersUnchangedByWorker
  /\ UNCHANGED << headers, logVars, rateTickC, results, errorsCh, wg, histVars >>

\* mutant: the worker calls wg.Done() twice
WExit_doubleDone(k, wk) ==
  /\ wk.pc = "idle"
  /\ Len(jobs[k]) = 0
  /\ jobsClosed[k]
  /\ Step(k, wk, [wk EXCEPT !.pc = "done"])
  /\ wg' = [wg EXCEPT ![k] = @ - 2]
  /\ othersUnchangedByWorker
  /\ UNCHANGED << headers, logVars, rateTickC, jobs, results, errorsCh, histVars >>

\* `range jobs` ends on the closed, drained channel; the deferred wg.Done() runs
WExit(k, wk) ==
  /\ wk.pc = "idle"
  /\ Len(jobs[k]) = 0
  /\ jobsClosed[k]
  /\ Step(k, wk, [wk EXCEPT !.pc = "done"])
  /\ wg' = [wg EXCEPT ![k] = @ - 1]
  /\ othersUnchangedByWorker
  /\ UNCHANGED << headers, logVars, rateTickC, jobs, results, errorsCh, histVars >>

\* mutant: the worker sees the tick but leaves it in the channel
WPermit_peek(k, wk) ==
  /\ wk.pc = "permit"
  /\ rateTickC > 0
  /\ Step(k, wk, [wk EXCEPT !.pc = "build", !.permit = TRUE])
  /\ othersUnchangedByWorker
  /\ UNCHANGED << headers, logVars, rateTickC, jobs, results, errorsCh, wg, histVars >>

\* <-rateTickC (line 173)
WPermit(k, wk) ==
  /\ wk.pc = "permit"
  /\ rateTickC > 0
  /\ rateTickC' = rateTickC - 1
  /\ Step(k, wk, [wk EXCEPT !.pc = "build", !.permit = TRUE])
  /\ othersUnchangedByWorker
  /\ UNCHANGED << headers, logVars, jobs, results, errorsCh, wg, histVars >>

\* payloadGen(idx) (line 177): the generator returns the same mapping for
\* every index
PayloadGen(idx) == args.fields

\* the orders in which a `range` over a Go map with key set S may yield them
RangeOrders(S) ==
  { o \in [1..Cardinality(S) -> S] : \A i, j \in DOMAIN o : i # j => o[i] # o[j] }

\* the boundaries multipart.NewWriter may draw at random
Boundaries == { "b1", "b2" }

\* the bodies the encoder switch (lines 182-238) may produce for mapping f:
\* json.Marshal and url.Values.Encode sort the keys; the multipart writer
\* gets the fields in range order and draws a boundary; binary takes the
\* value the range yields first
EncodedBodies(t, f) ==
  CASE t = "json" -> { << "json", f >> }
    [] t = "form" -> { << "form", f >> }
    [] t = "multipart" ->
         { << "multipart", bnd, o >> : bnd \in Boundaries, o \in RangeOrders(DOMAIN f) }
    [] t = "binary" -> { << "binary", f[o[1]] >> : o \in RangeOrders(DOMAIN f) }
    [] t = "graphql" ->
         { << "graphql", IF "query" \in DOMAIN f THEN f["query"] ELSE "" >> }

\* http.Header.Set canonicalises the header name (line 44); of the names in
\* the model only the lower-case one changes
CanonicalKey(k) == IF k = "content-type" THEN "Content-Type" ELSE k

\* the headers of the request after `for k, v := range headers
\* { req.Header.Set(k, v) }` (lines 43-45): for every canonical name the
\* value set last wins, and the range order is arbitrary
Applied(m) ==
  LET names == { CanonicalKey(k) : k \in DOMAIN m }
  IN { h \in [names -> { m[k] : k \in DOMAIN m }] :
         \A c \in names : \E k \in DOMAIN m : CanonicalKey(k) = c /\ h[c] = m[k] }

\* the request for idx is built from mapping and per-request headers rh and
\* dispatched (lines 177-247, 39-47)
Dispatch(idx, rh) ==
  /\ dispatched' = dispatched \cup {idx}
  /\ \E h \in Applied(rh) : wire' = MapSet(wire, idx, h)
  /\ \E b \in EncodedBodies(args.payloadType, PayloadGen(idx)) : body' = MapSet(body, idx, b)

\* mutant: Content-Type is set on the caller's map, which is then used as
\* the request's header map
WBuild_alias(k, wk) ==
  /\ wk.pc = "build"
  /\ IF args.payloadType \in KnownPayloadTypes
       THEN /\ headers' = MapSet(headers, "Content-Type", ContentTypeOf(args.payloadType))
            /\ Step(k, wk, [wk EXCEPT !.reqHeaders = headers', !.pc = "flight"])
            /\ Dispatch(wk.idx, headers')
            /\ UNCHANGED << errorsCh, outcome, text, firstEmitted, sends >>
       ELSE /\ Len(errorsCh[k]) < Cap(k)
            /\ errorsCh' = [errorsCh EXCEPT ![k] = Append(@, UnsupportedErrText)]
            /\ Emit(wk.idx, 0, UnsupportedErrText)
            /\ Step(k, wk, NewWorker)
            /\ UNCHANGED << dispatched, wire, body, headers >>
  /\ gen' = MapInc(gen, wk.idx)
  /\ othersUnchangedByWorker
  /\ UNCHANGED << logVars, rateTickC, jobs, results, wg, enqueued, closes >>

\* mutant: an unsupported format is skipped without a failure
WBuild_silent(k, wk) ==
  /\ wk.pc = "build"
  /\ IF args.payloadType \in KnownPayloadTypes
       THEN /\ Step(k, wk, [wk EXCEPT
                   !.reqHeaders = MapSet(headers, "Content-Type", ContentTypeOf(args.payloadType)),
                   !.pc = "flight"])
            /\ Dispatch(wk.idx, MapSet(headers, "Content-Type", ContentTypeOf(args.payloadType)))
       ELSE /\ Step(k, wk, NewWorker)
            /\ UNCHANGED << dispatched, wire, body >>
  /\ gen' = MapInc(gen, wk.idx)
  /\ othersUnchangedByWorker
  /\ UNCHANGED << headers, logVars, rateTickC, jobs, results, errorsCh, wg, enqueued, closes,
                  outcome, text, firstEmitted, sends >>

\* payloadGen, the encoder switch, the per-request header map and the
\* dispatch of the request (lines 177-247); an unsupported format sends a
\* failure instead and goes back to the range loop
WBuild(k, wk) ==
  /\ wk.pc = "build"
  /\ IF args.payloadType \in KnownPayloadTypes
       THEN /\ Step(k, wk, [wk EXCEPT
                   !.reqHeaders = MapSet(headers, "Content-Type", ContentTypeOf(args.payloadType)),
                   !.pc = "flight"])
            /\ Dispatch(wk.idx, MapSet(headers, "Content-Type", ContentTypeOf(args.payloadType)))
            /\ UNCHANGED << errorsCh, outcome, text, firstEmitted, sends >>
       ELSE /\ Len(errorsCh[k]) < Cap(k)
            /\ errorsCh' = [errorsCh EXCEPT ![k] = Append(@, UnsupportedErrText)]
            /\ Emit(wk.idx, 0, UnsupportedErrText)
            /\ Step(k, wk, NewWorker)
            /\ UNCHANGED << dispatched, wire, body >>
  /\ gen' = MapInc(gen, wk.idx)
  /\ othersUnchangedByWorker
  /\ UNCHANGED << headers, logVars, rateTickC, jobs, results, wg, enqueued, closes >>

\* SendRequestWithClient returns a response with status s; results <- resp;
\* then the row is logged when logging is on (line 255)
WRespond(k, wk, s, b) ==
  /\ wk.pc = "flight"
  /\ Len(results[k]) < Cap(k)
  /\ LET resp == [StatusCode |-> s, Body |-> b] IN
       /\ results' = [results EXCEPT ![k] = Append(@, resp)]
       /\ Step(k, wk, IF logging THEN [NewWorker EXCEPT !.idx = wk.idx, !.resp = resp, !.pc = "log"]
                                 ELSE NewWorker)
  /\ Emit(wk.idx, s, b)
  /\ othersUnchangedByWorker
  /\ UNCHANGED << headers, logVars, rateTickC, jobs, errorsCh, wg, dispatched, gen, enqueued,
                  wire, body, closes >>

\* SendRequestWithClient returns an error; errorsCh <- err (lines 248-251)
WFail(k, wk, e) ==
  /\ wk.pc = "flight"
  /\ Len(errorsCh[k]) < Cap(k)
  /\ errorsCh' = [errorsCh EXCEPT ![k] = Append(@, e)]
  /\ Step(k, wk, NewWorker)
  /\ Emit(wk.idx, 0, e)
  /\ othersUnchangedByWorker
  /\ UNCHANGED << headers, logVars, rateTickC, jobs, results, wg, dispatched, gen, enqueued,
                  wire, body, closes >>

\* mutant: the status column is always 0
LogRow_zero(wk) == << wk.idx, 0, wk.resp.Body >>

\* the row a worker writes (line 257)
LogRow(wk) == << wk.idx, wk.resp.StatusCode, wk.resp.Body >>

\* lines 255-260: lock, Write, Flush, unlock.  A flush to a file that is
\* already closed fails, the error is dropped and the row never reaches it.
WLog(k, wk) ==
  /\ wk.pc = "log"
  /\ globalMu = "free"
  /\ csvRows' = IF csvFile = "open" THEN Append(csvRows, LogRow(wk)) ELSE csvRows
  /\ Step(k, wk, NewWorker)
  /\ othersUnchangedByWorker
  /\ UNCHANGED << headers, logging, csvFile, rateTickC, jobs, results, errorsCh, wg,
                  histVars >>

\* ------------------------------------------------ ticker (lines 143-151)
\* The ticker puts a tick on its channel of capacity 1; a tick that finds the
\* channel full is dropped and changes nothing.
Tick ==
  /\ rateTicker = "running"
  /\ rateTickC = 0
  /\ rateTickC' = 1
  /\ ticks' = ticks + 1
  /\ UNCHANGED << inputVars, headers, coordVars, logVars, statsVars, globalMu, rateTicker,
                  chanVars, wg, feeder, closer, worker, histVars >>

\* --------------------------------------------- collector (lines 286-324)
\* The third case of the select, time.After(1s), changes no variable and is
\* a stuttering step of the coordinator.

collectorUnchanged ==
  UNCHANGED << inputVars, headers, logVars, tickVars, jobs, jobsClosed,
               resultsClosed, errorsClosed, wg, feeder, closer, worker,
               histVars >>

\* mutant: the chunk loop steps one index too far
LoopTest_skip(p) ==
  IF p < batchSize
    THEN /\ pc' = "select" /\ start' = start
    ELSE /\ pc' = "loop" /\ start' = start + chunkSize + 1

\* the loop test `processed < batchSize` and, when it fails, the step
\* `start += chunkSize` of the chunk loop
LoopTest(p) ==
  IF p < batchSize
    THEN /\ pc' = "select" /\ start' = start
    ELSE /\ pc' = "loop" /\ start' = start + chunkSize

\* mutant: the result received stays in the channel
ColRecvResult_peek ==
  /\ pc = "select"
  /\ Len(results[k0]) > 0
  /\ cur' = Head(results[k0])
  /\ results' = results
  /\ globalMu = "free"
  /\ globalMu' = "coord"
  /\ TotalPerStatus' = MapInc(TotalPerStatus, Head(results[k0]).StatusCode)
  /\ pc' = "exampleR"
  /\ UNCHANGED << ret, start, processed, ExampleMessage, errorsCh >>
  /\ collectorUnchanged

\* case r, ok := <-results with ok, then lines 298-299: Lock;
\* TotalPerStatus[r.StatusCode]++
ColRecvResult ==
  /\ pc = "select"
  /\ Len(results[k0]) > 0
  /\ cur' = Head(results[k0])
  /\ results' = [results EXCEPT ![k0] = Tail(@)]
  /\ globalMu = "free"
  /\ globalMu' = "coord"
  /\ TotalPerStatus' = MapInc(TotalPerStatus, Head(results[k0]).StatusCode)
  /\ pc' = "exampleR"
  /\ UNCHANGED << ret, start, processed, ExampleMessage, errorsCh >>
  /\ collectorUnchanged

\* case r, ok := <-results with !ok (lines 290-297): go and drain errorsCh
ColResultsClosed ==
  /\ pc = "select"
  /\ Len(results[k0]) = 0
  /\ resultsClosed[k0]
  /\ pc' = "drain"
  /\ UNCHANGED << ret, start, processed, cur, statsVars, globalMu, results, errorsCh >>
  /\ collectorUnchanged

\* `for err := range errorsCh { _ = err }` (lines 292-294): one failure dropped
ColDrainOne ==
  /\ pc = "drain"
  /\ Len(errorsCh[k0]) > 0
  /\ errorsCh' = [errorsCh EXCEPT ![k0] = Tail(@)]
  /\ UNCHANGED << pc, ret, start, processed, cur, statsVars, globalMu, results >>
  /\ collectorUnchanged

\* the range over errorsCh ends; processed = batchSize (line 295)
ColDrainEnd ==
  /\ pc = "drain"
  /\ Len(errorsCh[k0]) = 0
  /\ errorsClosed[k0]
  /\ processed' = batchSize
  /\ LoopTest(batchSize)
  /\ UNCHANGED << ret, cur, statsVars, globalMu, results, errorsCh >>
  /\ collectorUnchanged

\* mutant: the example is cut without the "..." mark
Truncate_unmarked(msg) == IF Len(msg) > ExampleLimit THEN SubSeq(msg, 1, ExampleLimit) ELSE msg

\* mutant: the example is the status line, not the body
Truncate_status(msg) == << 72, 84, 84, 80 >>

\* lines 301-304: msg = r.Body, cut to its first 200 bytes and "..." (three
\* bytes 46) when it is longer
Truncate(msg) ==
  IF Len(msg) > ExampleLimit
    THEN SubSeq(msg, 1, ExampleLimit) \o << 46, 46, 46 >>
    ELSE msg

\* mutant: an example is kept for 2xx statuses only
ColExampleResult_only2xx ==
  /\ pc = "exampleR"
  /\ ExampleMessage' =
       IF cur.StatusCode \in DOMAIN ExampleMessage \/ cur.StatusCode >= 300 THEN ExampleMessage
       ELSE MapSet(ExampleMessage, cur.StatusCode, Truncate(cur.Body))
  /\ globalMu' = "free"
  /\ processed' = processed + 1
  /\ LoopTest(processed + 1)
  /\ cur' = NoValue
  /\ UNCHANGED << ret, TotalPerStatus, results, errorsCh >>
  /\ collectorUnchanged

\* lines 300-308: first example of the status; Unlock; processed++
ColExampleResult ==
  /\ pc = "exampleR"
  /\ ExampleMessage' =
       IF cur.StatusCode \in DOMAIN ExampleMessage THEN ExampleMessage
       ELSE MapSet(ExampleMessage, cur.StatusCode, Truncate(cur.Body))
  /\ globalMu' = "free"
  /\ processed' = processed + 1
  /\ LoopTest(processed + 1)
  /\ cur' = NoValue
  /\ UNCHANGED << ret, TotalPerStatus, results, errorsCh >>
  /\ collectorUnchanged

\* case err, ok := <-errorsCh with ok, then lines 314-315: Lock;
\* TotalPerStatus[0]++
ColRecvError ==
  /\ pc = "select"
  /\ Len(errorsCh[k0]) > 0
  /\ cur' = [StatusCode |-> 0, Body |-> Head(errorsCh[k0])]
  /\ errorsCh' = [errorsCh EXCEPT ![k0] = Tail(@)]
  /\ globalMu = "free"
  /\ globalMu' = "coord"
  /\ TotalPerStatus' = MapInc(TotalPerStatus, 0)
  /\ pc' = "exampleE"
  /\ UNCHANGED << ret, start, processed, ExampleMessage, results >>
  /\ collectorUnchanged

\* case err, ok := <-errorsCh with !ok (lines 310-313)
ColErrorsClosed ==
  /\ pc = "select"
  /\ Len(errorsCh[k0]) = 0
  /\ errorsClosed[k0]
  /\ processed' = batchSize
  /\ LoopTest(batchSize)
  /\ UNCHANGED << ret, cur, statsVars, globalMu, results, errorsCh >>
  /\ collectorUnchanged

\* mutant: the first failure received ends the run and is returned
ColExampleError_abort ==
  /\ pc = "exampleE"
  /\ globalMu' = "free"
  /\ pc' = "returned" /\ ret' = "error"
  /\ cur' = NoValue
  /\ UNCHANGED << start, processed, statsVars, results, errorsCh >>
  /\ collectorUnchanged

\* lines 316-320: first example of status 0; Unlock; processed++
ColExampleError ==
  /\ pc = "exampleE"
  /\ ExampleMessage' =
       IF 0 \in DOMAIN ExampleMessage THEN ExampleMessage
       ELSE MapSet(ExampleMessage, 0, cur.Body)
  /\ globalMu' = "free"
  /\ processed' = processed + 1
  /\ LoopTest(processed + 1)
  /\ cur' = NoValue
  /\ UNCHANGED << ret, TotalPerStatus, results, errorsCh >>
  /\ collectorUnchanged

\* ------------------------------------------------ return (lines 330-336)
\* the chunk loop is over: final Flush and Close of the log (without the
\* mutex), the deferred rateTicker.Stop(), return stats
Finish ==
  /\ pc = "loop"
  /\ start >= args.count
  /\ csvFile' = IF logging /\ csvFile # "nil" THEN "closed" ELSE csvFile
  /\ rateTicker' = IF rateTicker = "running" THEN "stopped" ELSE rateTicker
  /\ pc' = "returned"
  /\ ret' = "stats"
  /\ UNCHANGED << inputVars, headers, logging, csvRows, statsVars, globalMu, rateTickC, ticks,
                  start, processed, cur, chanVars, wg, feeder, closer, worker,
                  histVars >>

\* ------------------------------------------------------------------ Next
Next ==
  \/ Enter
  \/ StartChunk
  \/ \E k \in Chunks : FeedSend(k)
  \/ \E k \in Chunks : FeedClose(k)
  \/ \E k \in Chunks : CloseResults(k)
  \/ \E k \in Chunks : CloseErrors(k)
  \/ \E k \in Chunks : \E wk \in BagToSet(worker[k]) : WTake(k, wk)
  \/ \E k \in Chunks : \E wk \in BagToSet(worker[k]) : WExit(k, wk)
  \/ \E k \in Chunks : \E wk \in BagToSet(worker[k]) : WPermit(k, wk)
  \/ \E k \in Chunks : \E wk \in BagToSet(worker[k]) : WBuild(k, wk)
  \/ \E k \in Chunks : \E wk \in BagToSet(worker[k]) : \E s \in Statuses : WRespond(k, wk, s, Snippet(wk.idx))
  \/ \E k \in Chunks : \E wk \in BagToSet(worker[k]) : WFail(k, wk, TransportErrText(wk.idx))
  \/ \E k \in Chunks : \E wk \in BagToSet(worker[k]) : WLog(k, wk)
  \/ Tick
  \/ ColRecvResult
  \/ ColResultsClosed
  \/ ColDrainOne
  \/ ColDrainEnd
  \/ ColExampleResult
  \/ ColRecvError
  \/ ColErrorsClosed
  \/ ColExampleError
  \/ Finish

Spec == Init /\ [][Next]_vars

\* ==================================================================
\* Properties
\* ==================================================================
\* m[k] read from a Go map: a missing key reads as 0
MapGet(m, k) == IF k \in DOMAIN m THEN m[k] ELSE 0

\* the call has returned Stats
ReturnedStats == pc = "returned" /\ ret = "stats"

\* number of indices whose emitted outcome is s (0: no HTTP response)
NumOutcome(s) == Cardinality({ i \in DOMAIN outcome : outcome[i] = s })

\* number of workers of chunk k at position p
CountAt(k, p) == SumOver(worker[k], At(k, p))
\* number of workers of all chunks at position p
CountAllAt(p) == SumOver([k \in Chunks |-> CountAt(k, p)], Chunks)

\* HTTP requests dispatched and not yet completed
InFlight == CountAllAt("flight")

\* indices enqueued and not yet taken, over the job channels of all chunks
Resident == SumOver([k \in Chunks |-> Len(jobs[k])], Chunks)

\* the data rows of the log
DataRows == { j \in 2..Len(csvRows) : TRUE }
RowsOf(i) == { j \in DataRows : csvRows[j][1] = i }

\* C1: at return with Stats, the counters of TotalPerStatus add up to count.
C1_ClosedAccounting ==
  ReturnedStats => MapSum(TotalPerStatus) = args.count

\* C2: at return with Stats, TotalPerStatus[0] is the number of indices whose
\* request produced no HTTP response (every emitted failure is counted).
C2_FailuresCounted ==
  ReturnedStats => MapGet(TotalPerStatus, 0) = NumOutcome(0)

\* C3: at return with Stats, for every HTTP status s, TotalPerStatus[s] is the
\* number of indices whose request completed with status s.
C3_ResponsesCounted ==
  ReturnedStats => \A s \in Statuses : MapGet(TotalPerStatus, s) = NumOutcome(s)

\* C4: at every moment at most W requests are in flight over all chunks,
\* W being the given worker count, or 10 when that is <= 0.
C4_InFlightBound ==
  InFlight <= (IF args.concurrency <= 0 THEN 10 ELSE args.concurrency)

C4_Witness ==
  /\ args.concurrency = 2
  /\ InFlight = 2
  /\ NumChunks = 1

\* C5: at every moment at most C indices are resident in the job channels of
\* all chunks, C being the given chunk size, or 1000 when that is <= 0.
C5_ResidentBound ==
  Resident <= (IF args.chunkSize <= 0 THEN 1000 ELSE args.chunkSize)

C5_Witness ==
  /\ args.chunkSize = 2
  /\ Resident = 2

\* C6: with a rate limit, a worker that is about to call payloadGen or has
\* dispatched its request has received a permit for the index it holds.
C6_PermitBeforeBuild ==
  args.rateLimit > 0 =>
    \A k \in Chunks : \A wk \in BagToSet(worker[k]) :
      wk.pc \in {"build", "flight"} => wk.permit

C6_Witness ==
  /\ args.rateLimit > 0
  /\ \E k \in Chunks : \E wk \in At(k, "flight") : wk.permit /\ wk.idx = 1

\* C7: with a rate limit, the requests dispatched since the start, the permits
\* held by workers that have not dispatched yet and the permit stored in the
\* channel never exceed the ticks the one ticker has emitted; the channel
\* stores at most one permit.
C7_DispatchedWithinTicks ==
  args.rateLimit > 0 =>
    /\ rateTickC <= 1
    /\ Cardinality(dispatched) + CountAllAt("build") + rateTickC <= ticks

C7_Witness ==
  /\ args.rateLimit > 0
  /\ NumChunks = 2
  /\ Cardinality(dispatched) = 2
  /\ ticks = 2

\* C8: the caller's headers map has at every state the keys and values it
\* had on entry.
C8_HeadersUntouched ==
  headers = headersOnEntry

C8_Witness ==
  /\ ReturnedStats
  /\ "Content-Type" \in DOMAIN headers
  /\ dispatched # {}
  /\ args.payloadType = "binary"

C10_LogCompleteAtReturn ==
  ( /\ ReturnedStats
    /\ logging
    /\ \A i \in 0..(args.count - 1) : i \in DOMAIN outcome /\ outcome[i] # 0 )
  => /\ csvFile = "closed"
     /\ Len(csvRows) = args.count + 1

\* the call meets one of the fatal conditions: count <= 0, the SOCKS5 dialer
\* cannot be built, the log file cannot be created
BadCount == args.count <= 0
NoClient == args.useTor /\ ~env.dialerOk
NoLog == args.logPath # "" /\ ~env.createOk

\* C11: on each fatal condition the call returns an error and no Stats, with
\* no worker spawned, no payload generated and no request dispatched; with
\* count <= 0 or without a client the log file is not touched either.
C11_FatalReturnsError ==
  (pc # "entry" /\ (BadCount \/ NoClient \/ NoLog)) =>
    /\ pc = "returned" /\ ret = "error"
    /\ NumChunks = 0 /\ worker = << >>
    /\ dispatched = {} /\ gen = EmptyMap
    /\ TotalPerStatus = EmptyMap /\ ExampleMessage = EmptyMap
    /\ csvFile = "nil" /\ csvRows = << >> /\ ~logging

\* the client cannot be built although the log file could have been created
C11_Witness ==
  /\ pc = "returned" /\ ret = "error"
  /\ ~BadCount /\ NoClient /\ args.logPath # "" /\ env.createOk

\* the call passed validation, client creation and log creation
SetupOk == ~(BadCount \/ NoClient \/ NoLog)

\* C12: after a successful setup the call returns Stats and no error,
\* whatever the outcomes of the requests, and not before every index of
\* [0, count) has had its outcome: a failed request neither ends the run nor
\* becomes the returned error.
C12_StatsAfterSetup ==
  (pc = "returned" /\ SetupOk) =>
    /\ ret = "stats"
    /\ \A i \in 0..(args.count - 1) : i \in DOMAIN outcome

\* the first request failed, the run went on and the second got a response
C12_Witness ==
  /\ ReturnedStats
  /\ args.count = 2
  /\ firstEmitted = (0 :> 0 @@ 200 :> 1)
  /\ TotalPerStatus = (0 :> 1 @@ 200 :> 1)

\* C13: whenever the aggregator is outside its critical section, and so at
\* return, a status (0 included) has an example iff its counter is positive.
C13_ExampleIffCounted ==
  globalMu = "free" =>
    /\ DOMAIN ExampleMessage \subseteq Statuses \cup {0}
    /\ DOMAIN TotalPerStatus \subseteq Statuses \cup {0}
    /\ \A s \in Statuses \cup {0} :
         s \in DOMAIN ExampleMessage <=> MapGet(TotalPerStatus, s) > 0

\* a failure and a non-2xx response have been counted, the call not yet returned
C13_Witness ==
  /\ globalMu = "free"
  /\ pc # "returned"
  /\ TotalPerStatus = (0 :> 1 @@ 401 :> 1)
  /\ DOMAIN ExampleMessage = {0, 401}

\* C14: at return, the example of every status present is the text of the
\* first request of the run, in the order the workers emitted the outcomes,
\* whose outcome was that status.
C14_FirstEmittedExample ==
  ReturnedStats =>
    \A s \in DOMAIN ExampleMessage :
      /\ s \in DOMAIN firstEmitted
      /\ ExampleMessage[s] = Truncate(text[firstEmitted[s]])

\* ------------------------------------------------------------------
\* The same call against a server whose responses may have an empty body:
\* strings.TrimSpace(string(snippet)) (line 63) is then the empty text.  The
\* calls explored are those without rate limit, log, proxy and default
\* worker count, which play no part in the examples.
Bodies(idx) == { << >>, Snippet(idx) }

InitBodies ==
  /\ Init
  /\ args.rateLimit = 0
  /\ args.logPath = ""
  /\ ~args.useTor
  /\ args.concurrency > 0
  /\ headers = BaseHeaders

NextBodies ==
  \/ Enter
  \/ StartChunk
  \/ \E k \in Chunks : FeedSend(k)
  \/ \E k \in Chunks : FeedClose(k)
  \/ \E k \in Chunks : CloseResults(k)
  \/ \E k \in Chunks : CloseErrors(k)
  \/ \E k \in Chunks : \E wk \in BagToSet(worker[k]) : WTake(k, wk)
  \/ \E k \in Chunks : \E wk \in BagToSet(worker[k]) : WExit(k, wk)
  \/ \E k \in Chunks : \E wk \in BagToSet(worker[k]) : WBuild(k, wk)
  \/ \E k \in Chunks : \E wk \in BagToSet(worker[k]) :
       \E s \in Statuses : \E b \in Bodies(wk.idx) : WRespond(k, wk, s, b)
  \/ \E k \in Chunks : \E wk \in BagToSet(worker[k]) : WFail(k, wk, TransportErrText(wk.idx))
  \/ ColRecvResult
  \/ ColResultsClosed
  \/ ColDrainOne
  \/ ColDrainEnd
  \/ ColExampleResult
  \/ ColRecvError
  \/ ColErrorsClosed
  \/ ColExampleError
  \/ Finish

SpecBodies == InitBodies /\ [][NextBodies]_vars

\* the example of status s is the text of request i, cut to ExampleLimit
\* bytes when the text is longer
ExampleFrom(s, i) ==
  /\ outcome[i] = s
  /\ Len(text[i]) <= ExampleLimit => ExampleMessage[s] = text[i]
  /\ Len(text[i]) > ExampleLimit =>
       /\ Len(ExampleMessage[s]) >= ExampleLimit
       /\ SubSeq(ExampleMessage[s], 1, ExampleLimit) = SubSeq(text[i], 1, ExampleLimit)

\* C15: at return, every status with a positive counter has an example that
\* is not empty and is the text of some request whose outcome was that status.
C15_ExampleNonEmpty ==
  ReturnedStats =>
    \A s \in DOMAIN TotalPerStatus :
      TotalPerStatus[s] >= 1 =>
        /\ s \in DOMAIN ExampleMessage
        /\ ExampleMessage[s] # << >>
        /\ \E i \in DOMAIN outcome : ExampleFrom(s, i)

\* C15 amended: at return, every status with a positive counter has an
\* example that is the text of some request whose outcome was that status;
\* the example of status 0 is not empty.
C15_ExampleOfSameStatus ==
  ReturnedStats =>
    \A s \in DOMAIN TotalPerStatus :
      TotalPerStatus[s] >= 1 =>
        /\ s \in DOMAIN ExampleMessage
        /\ (s = 0 => ExampleMessage[s] # << >>)
        /\ \E i \in DOMAIN outcome : ExampleFrom(s, i)

\* a response with an empty body, a response with a snippet
C15_Witness ==
  /\ ReturnedStats
  /\ TotalPerStatus = (200 :> 1 @@ 401 :> 1)
  /\ ExampleMessage = (200 :> << >> @@ 401 :> << 1 >>)

\* ------------------------------------------------------------------
\* Fair scheduling: the Go scheduler lets every runnable goroutine run; every
\* request in flight gets its response or its error; the ticker keeps ticking
\* while it runs.
CoordinatorStep ==
  \/ Enter \/ StartChunk \/ Finish
  \/ ColRecvResult \/ ColResultsClosed \/ ColDrainOne \/ ColDrainEnd \/ ColExampleResult
  \/ ColRecvError \/ ColErrorsClosed \/ ColExampleError
FeederStep == \E k \in Chunks : FeedSend(k) \/ FeedClose(k)
CloserStep == \E k \in Chunks : CloseResults(k) \/ CloseErrors(k)
WorkerStep ==
  \E k \in Chunks : \E wk \in BagToSet(worker[k]) :
    WTake(k, wk) \/ WExit(k, wk) \/ WPermit(k, wk) \/ WBuild(k, wk) \/ WLog(k, wk)
RequestStep ==
  \E k \in Chunks : \E wk \in BagToSet(worker[k]) :
    \/ \E s \in Statuses : WRespond(k, wk, s, Snippet(wk.idx))
    \/ WFail(k, wk, TransportErrText(wk.idx))

Fairness ==
  /\ WF_vars(CoordinatorStep)
  /\ WF_vars(FeederStep)
  /\ WF_vars(CloserStep)
  /\ WF_vars(WorkerStep)
  /\ WF_vars(RequestStep)
  /\ WF_vars(Tick)

FairSpec == Init /\ [][Next]_vars /\ Fairness

\* every goroutine of every chunk has ended
GoroutinesDone ==
  \A k \in Chunks :
    /\ feeder[k].done
    /\ closer[k] = "done"
    /\ \A wk \in BagToSet(worker[k]) : wk.pc = "done"

\* C16: under fair scheduling the call eventually returns and every worker,
\* feeder and closer it started eventually ends.
C16_Terminates == <>(pc = "returned" /\ GoroutinesDone)

\* a paced run of two chunks has returned and all its goroutines have ended
C16_Witness ==
  /\ ReturnedStats
  /\ GoroutinesDone
  /\ NumChunks = 2
  /\ args.rateLimit > 0

\* the chunk size the claim gives: C, or 1000 when C <= 0
ClaimedChunk == IF args.chunkSize <= 0 THEN 1000 ELSE args.chunkSize
\* ceil(n / c)
CeilDiv(n, c) == (n + c - 1) \div c

\* C17: chunk k (numbered from 1) enqueues only indices of
\* [(k-1)*C, min(k*C, N)), in increasing order over the whole run and never
\* twice; there are at most ceil(N/C) chunks, and at return exactly that many,
\* with every index of [0, N) enqueued.
C17_ChunkPartition ==
  /\ \A j \in 1..Len(enqueued) :
       LET k == enqueued[j][1]
           i == enqueued[j][2]
       IN /\ 0 <= i /\ i < args.count
          /\ (k - 1) * ClaimedChunk <= i
          /\ i < Min(k * ClaimedChunk, args.count)
          /\ \A j2 \in 1..(j - 1) : enqueued[j2][2] < i /\ enqueued[j2][1] <= k
  /\ SetupOk => NumChunks <= CeilDiv(args.count, ClaimedChunk)
  /\ ReturnedStats =>
       /\ NumChunks = CeilDiv(args.count, ClaimedChunk)
       /\ { enqueued[j][2] : j \in 1..Len(enqueued) } = 0..(args.count - 1)

\* two chunks of one index each
C17_Witness ==
  /\ ReturnedStats
  /\ args.chunkSize = 1
  /\ enqueued = << << 1, 0 >>, << 2, 1 >> >>

\* the chunk (numbered from 1) of index i
ChunkOf(i) == (i \div ClaimedChunk) + 1
\* the indices sent on a job channel so far
EnqueuedSet == { enqueued[j][2] : j \in 1..Len(enqueued) }

\* C18: when an index of a chunk has been enqueued or its request dispatched,
\* every index of every earlier chunk has had its outcome.
C18_ChunksInSequence ==
  \A i \in EnqueuedSet \cup dispatched :
    \A i2 \in 0..(args.count - 1) :
      ChunkOf(i2) < ChunkOf(i) => i2 \in DOMAIN outcome

\* the collector left the first chunk on a closed channel, dropping its
\* outcome, and the request of the second chunk has been dispatched
C18_Witness ==
  /\ NumChunks = 2
  /\ 1 \in dispatched
  /\ ChunkOf(1) = 2
  /\ pc = "select"
  /\ TotalPerStatus = EmptyMap

\* worker goroutines of chunk k that have not ended
Alive(k) == SumOver(worker[k], { wk \in BagToSet(worker[k]) : wk.pc # "done" })

\* C19: once a later chunk has been started, and at return, no worker of an
\* earlier chunk is alive; at most `concurrency` workers are alive at a time.
C19_EarlierWorkersExited ==
  /\ \A k \in Chunks : k < NumChunks => Alive(k) = 0
  /\ pc = "returned" => \A k \in Chunks : Alive(k) = 0
  /\ SumOver([k \in Chunks |-> Alive(k)], Chunks) <= concurrency

\* C20: payloadGen is never called twice with one index nor with an index
\* outside [0, count); at return with Stats it has been called exactly once
\* with each index of [0, count), and no enqueued index is left in a channel.
C20_PayloadGenOncePerIndex ==
  /\ DOMAIN gen \subseteq 0..(args.count - 1)
  /\ \A i \in DOMAIN gen : gen[i] = 1
  /\ ReturnedStats =>
       /\ DOMAIN gen = 0..(args.count - 1)
       /\ Resident = 0

\* two workers of one chunk have generated one payload each
C20_Witness ==
  /\ ReturnedStats
  /\ NumChunks = 1
  /\ concurrency = 2
  /\ gen = (0 :> 1 @@ 1 :> 1)

\* number of close() calls on channel c of chunk k
Closes(c, k) == MapGet(closes, << c, k >>)

\* C21: no channel of a chunk is closed twice; the job channel is closed only
\* after every index of the chunk has been enqueued; the result and failure
\* channels are closed only after every worker of the chunk has ended (so no
\* worker sends on a closed channel); when the closer has ended each of the
\* three channels has been closed once.
C21_CloseDiscipline ==
  \A k \in Chunks :
    /\ Closes("jobs", k) <= 1 /\ Closes("results", k) <= 1 /\ Closes("errorsCh", k) <= 1
    /\ jobsClosed[k] <=> Closes("jobs", k) = 1
    /\ resultsClosed[k] <=> Closes("results", k) = 1
    /\ errorsClosed[k] <=> Closes("errorsCh", k) = 1
    /\ jobsClosed[k] =>
         \A i \in feeder[k].s..(feeder[k].e - 1) :
           \E j \in 1..Len(enqueued) : enqueued[j] = << k, i >>
    /\ (resultsClosed[k] \/ errorsClosed[k]) => Alive(k) = 0 /\ jobsClosed[k]
    /\ closer[k] = "done" => resultsClosed[k] /\ errorsClosed[k]

\* two chunks of two workers each, all channels closed
C21_Witness ==
  /\ NumChunks = 2
  /\ concurrency = 2
  /\ \A k \in Chunks : closer[k] = "done" /\ Closes("jobs", k) = 1

\* the number of indices of chunk k
ChunkLen(k) == Min(k * ClaimedChunk, args.count) - (k - 1) * ClaimedChunk

\* C22: the three channels of a chunk have the chunk's size as capacity, and
\* whenever the feeder or a worker is about to send, the channel it sends on
\* holds fewer items than that.
C22_SendsNeverBlock ==
  \A k \in Chunks :
    /\ Cap(k) = ChunkLen(k)
    /\ (~feeder[k].done /\ feeder[k].i < feeder[k].e) => Len(jobs[k]) < Cap(k)
    /\ \A wk \in BagToSet(worker[k]) :
         /\ wk.pc = "flight" => Len(results[k]) < Cap(k) /\ Len(errorsCh[k]) < Cap(k)
         /\ (wk.pc = "build" /\ args.payloadType \notin KnownPayloadTypes)
              => Len(errorsCh[k]) < Cap(k)

\* a worker is about to send while the first outcome of the chunk has not
\* been received yet
C22_Witness ==
  /\ pc = "select"
  /\ processed = 0
  /\ Cap(k0) = 2
  /\ Len(results[k0]) = 1
  /\ CountAt(k0, "flight") = 1

\* C23: with a payload format that is none of json, form, multipart, binary,
\* graphql, every index a worker has handled has exactly one failure sent on
\* the failure channel and no request dispatched, the worker is back at its
\* range loop, and the run goes through all chunks.
C23_UnsupportedFormat ==
  args.payloadType \notin {"json", "form", "multipart", "binary", "graphql"} =>
    /\ dispatched = {} /\ wire = EmptyMap /\ body = EmptyMap
    /\ \A k \in Chunks : \A wk \in BagToSet(worker[k]) : wk.pc \notin {"flight", "log"}
    /\ DOMAIN sends = DOMAIN gen
    /\ \A i \in DOMAIN gen :
         /\ gen[i] = 1 /\ sends[i] = 1
         /\ outcome[i] = 0 /\ text[i] = UnsupportedErrText
    /\ ReturnedStats =>
         /\ DOMAIN sends = 0..(args.count - 1)
         /\ NumChunks = CeilDiv(args.count, ClaimedChunk)

\* two chunks of one index each, both failures counted
C23_Witness ==
  /\ ReturnedStats
  /\ args.payloadType = "xml"
  /\ NumChunks = 2
  /\ TotalPerStatus = (0 :> 2)

\* C24: the Content-Type header of every dispatched request is the encoder's
\* content type for the payload format.
C24_EncoderContentType ==
  \A i \in DOMAIN wire :
    /\ "Content-Type" \in DOMAIN wire[i]
    /\ wire[i]["Content-Type"] = ContentTypeOf(args.payloadType)

\* C25: in the binary format, two requests whose mappings are the same have
\* the same body.
C25_BinaryDeterministic ==
  args.payloadType = "binary" =>
    \A i, j \in DOMAIN body :
      PayloadGen(i) = PayloadGen(j) => body[i] = body[j]

\* ------------------------------------------------------------------
\* The same call with texts on both sides of ExampleLimit: the snippet of a
\* response may be long, and so may the text of a transport error (it quotes
\* the URL).  The calls explored are those of SpecBodies that run as one
\* chunk: the aggregator stores examples the same way in every chunk.
InitTexts == InitBodies /\ args.chunkSize = 0
LongBodies(idx) == { Snippet(idx), LongSnippet(idx) }
ErrTexts(idx) == { TransportErrText(idx), LongErrText(idx) }

NextTexts ==
  \/ Enter
  \/ StartChunk
  \/ \E k \in Chunks : FeedSend(k)
  \/ \E k \in Chunks : FeedClose(k)
  \/ \E k \in Chunks : CloseResults(k)
  \/ \E k \in Chunks : CloseErrors(k)
  \/ \E k \in Chunks : \E wk \in BagToSet(worker[k]) : WTake(k, wk)
  \/ \E k \in Chunks : \E wk \in BagToSet(worker[k]) : WExit(k, wk)
  \/ \E k \in Chunks : \E wk \in BagToSet(worker[k]) : WBuild(k, wk)
  \/ \E k \in Chunks : \E wk \in BagToSet(worker[k]) :
       \E s \in Statuses : \E b \in LongBodies(wk.idx) : WRespond(k, wk, s, b)
  \/ \E k \in Chunks : \E wk \in BagToSet(worker[k]) :
       \E e \in ErrTexts(wk.idx) : WFail(k, wk, e)
  \/ ColRecvResult
  \/ ColResultsClosed
  \/ ColDrainOne
  \/ ColDrainEnd
  \/ ColExampleResult
  \/ ColRecvError
  \/ ColErrorsClosed
  \/ ColExampleError
  \/ Finish

SpecTexts == InitTexts /\ [][NextTexts]_vars

\* text t unchanged when it has at most 200 bytes, else its first 200 bytes
\* and "..."
Cut200(t) == IF Len(t) <= 200 THEN t ELSE SubSeq(t, 1, 200) \o << 46, 46, 46 >>

\* C26: every stored example, of an HTTP status or of status 0, is the text
\* of a request with that outcome cut to 200 bytes and "...", so it has at
\* most 203 bytes.
C26_ExamplesTruncated ==
  \A s \in DOMAIN ExampleMessage :
    /\ Len(ExampleMessage[s]) <= 203
    /\ \E i \in DOMAIN outcome : outcome[i] = s /\ ExampleMessage[s] = Cut200(text[i])

\* C26 amended: the example of an HTTP status is the snippet of a response
\* with that status cut to 200 bytes and "..."; the example of status 0 is
\* the error text of a failed request, unchanged whatever its length.
C26_SnippetsTruncated ==
  \A s \in DOMAIN ExampleMessage :
    IF s = 0
      THEN \E i \in DOMAIN outcome : outcome[i] = 0 /\ ExampleMessage[0] = text[i]
      ELSE /\ Len(ExampleMessage[s]) <= 203
           /\ \E i \in DOMAIN outcome : outcome[i] = s /\ ExampleMessage[s] = Cut200(text[i])

\* a long snippet stored cut, a long error text stored whole
C26_Witness ==
  /\ ReturnedStats
  /\ DOMAIN ExampleMessage = {0, 200}
  /\ Len(ExampleMessage[200]) = 203
  /\ Len(ExampleMessage[0]) > 203

\* ------------------------------------------------------------------
\* C27: for every rateLimit R > 0 the pacer's tick interval is
\* max(1s / R, 1 ms), so it is never shorter than 1 millisecond.
C27_IntervalAtLeastMillisecond ==
  rateTicker # "nil" =>
    /\ interval >= 1000000
    /\ interval = IF 1000000000 \div args.rateLimit >= 1000000
                    THEN 1000000000 \div args.rateLimit ELSE 1000000

\* C27 amended: the interval is 1s / R cut to whole nanoseconds (the
\* largest d with d * R <= 1s), and 1 ms only where that is 0, for R above
\* 10^9.
C27_IntervalIsQuotient ==
  rateTicker # "nil" =>
    /\ args.rateLimit > 0
    /\ interval > 0
    /\ IF args.rateLimit <= 1000000000
         THEN /\ interval * args.rateLimit <= 1000000000
              /\ 1000000000 - interval * args.rateLimit < args.rateLimit
         ELSE interval = 1000000

\* the pacer of a run with R = 2000 ticks every 500 microseconds
C27_Witness == rateTicker = "running" /\ args.rateLimit = 2000 /\ interval = 500000

\* ------------------------------------------------------------------
\* every counter is at most the number of requests completed with that
\* outcome, and the counters sum to at most N
CountersWithinOutcomes ==
  /\ \A s \in Statuses \cup {0} : MapGet(TotalPerStatus, s) <= NumOutcome(s)
  /\ DOMAIN TotalPerStatus \subseteq Statuses \cup {0}
  /\ MapSum(TotalPerStatus) <= (IF args.count > 0 THEN args.count ELSE 0)

\* the outcomes waiting in the two channels of all chunks
Waiting == SumOver([k \in Chunks |-> Len(results[k]) + Len(errorsCh[k])], Chunks)

\* C28: in every reachable state, for every status s, TotalPerStatus[s] is at
\* most the number of requests already completed with outcome s, and the sum
\* of the counters is at most N; a step never decreases a counter, adds at
\* most one to one counter and only by taking one outcome out of a channel,
\* and the closed-channel exits of the collector add nothing.
C28_CountersBounded ==
  [][ /\ CountersWithinOutcomes
      /\ CountersWithinOutcomes'
      /\ \A s \in Statuses \cup {0} :
           MapGet(TotalPerStatus', s) >= MapGet(TotalPerStatus, s)
      /\ TotalPerStatus' # TotalPerStatus =>
           /\ MapSum(TotalPerStatus') = MapSum(TotalPerStatus) + 1
           /\ Waiting' = Waiting - 1
           /\ pc = "select" /\ pc' \in {"exampleR", "exampleE"}
      /\ (pc = "drain" \/ (pc = "select" /\ pc' \notin {"exampleR", "exampleE"})) =>
           TotalPerStatus' = TotalPerStatus ]_vars

\* the call has returned after a closed-channel exit that left a completed
\* failure uncounted, one response having been counted
C28_Witness ==
  /\ ReturnedStats
  /\ TotalPerStatus = (200 :> 1)
  /\ NumOutcome(0) = 1
  /\ NumOutcome(200) = 1

====
